---- MODULE Spec2Model ----
(***************************************************************************)
(* Model of src/lock.c: the path-level advisory lock operations c_lock,    *)
(* c_lock_wait (both expansions of the _LOCK macro) and c_unlock, run by   *)
(* several single-threaded processes against one kernel.  The kernel side  *)
(* (descriptor tables, the file system, the POSIX record-lock table) is    *)
(* modelled as the system calls of lock.c behave on Linux: open(2),        *)
(* fcntl(2) with F_SETLK / F_SETLKW, and close(2).                         *)
(***************************************************************************)
EXTENDS Integers, Sequences, FiniteSets, TLC

(* ---------------- bounds of the model ---------------- *)
NumProcs == 2
MaxFd == 2
MaxCalls == 4

(* ---------------- platform constants (errno.h, fcntl.h, unistd.h) ------- *)
EINTR == 4
EIO == 5
EBADF == 9
EAGAIN == 11
EACCES == 13
EMFILE == 24
EDEADLK == 35

F_RDLCK == 0
F_WRLCK == 1
F_UNLCK == 2
F_SETLK == 6
F_SETLKW == 7
SEEK_SET == 0

(* S_IRUSR | S_IWUSR | S_IRGRP | S_IROTH, the mode argument of open *)
S_IRUSR == 256
S_IWUSR == 128
S_IRGRP == 32
S_IROTH == 4

(* a mode argument that also grants owner execute *)
CreateModeOwnerExec == S_IRUSR + S_IWUSR + S_IRGRP + S_IROTH + 64

CreateMode == S_IRUSR + S_IWUSR + S_IRGRP + S_IROTH

(* flags that also truncate the file *)
OpenFlagsTrunc == {"O_WRONLY", "O_CREAT", "O_TRUNC"}

(* O_WRONLY | O_CREAT, the flags argument of open *)
OpenFlags == {"O_WRONLY", "O_CREAT"}

Procs == 1..NumProcs
FdSlots == 0..(MaxFd - 1)
GoodPaths == {"a", "b"}
BadPath == "noaccess"
Paths == GoodPaths \cup {BadPath}
NoFile == "-"
OldPaths == {"a"}
DefaultUmask == 18
PrivateUmask == 63
Umasks == {DefaultUmask, PrivateUmask}
OldMode == S_IRUSR + S_IWUSR
OldSize == 2

VARIABLES
  fdtab,     \* fdtab[p][fd]: the path descriptor fd of process p is open on, or NoFile
  locks,     \* kernel record-lock table: set of [pid, path, type, start, len]
  fs,        \* fs[path]: [exists, mode, size] of the file at path
  umask,     \* the file-mode creation mask of the processes
  pc,        \* pc[p]: where process p is inside an acquire call, or "idle"
  cur,       \* cur[p]: the locals of the acquire call in progress (lock_type, pathname, fd, errno)
  result,    \* result[p]: the struct result returned by p's last call (NoResult during a call)
  calls,     \* calls[p]: the system calls issued by p's current / most recent library call
  handles,   \* handles[p]: fds returned by successful acquires and not yet passed to c_unlock
  released,  \* released[p]: fds that were passed to c_unlock as handles of p
  budget,    \* number of library calls the processes may still start
  actor,     \* the process that took the latest step (0 before any step)
  blockers,  \* blockers[p]: processes that held the lock when p's lock request was issued
  relSince   \* relSince[p]: processes whose lock on p's file was released since that request

vars == <<fdtab, locks, fs, umask, pc, cur, result, calls, handles, released, budget,
          actor, blockers, relSince>>

NoCall == [lock_type |-> "none", pathname |-> NoFile, fd |-> -1, errno |-> 0]
NoResult == [op |-> "none", path |-> NoFile, fd |-> -1, error |-> 0]

(* ---------------- kernel helpers ---------------- *)

RECURSIVE BitAndNot(_, _, _)
(* a & ~b on the low n bits *)
BitAndNot(a, b, n) ==
  IF n = 0 THEN 0
  ELSE 2 * BitAndNot(a \div 2, b \div 2, n - 1)
       + (IF a % 2 = 1 /\ b % 2 = 0 THEN 1 ELSE 0)

OpenFds(p) == {fd \in FdSlots : fdtab[p][fd] # NoFile}

(* open() returns the lowest-numbered descriptor not open in the process *)
LowestFree(p) ==
  CHOOSE fd \in FdSlots : fdtab[p][fd] = NoFile
                          /\ \A g \in FdSlots : g < fd => fdtab[p][g] # NoFile

(* errno of open(pathname, O_WRONLY | O_CREAT, 0644), 0 when it succeeds *)
OpenErrno(p, pathname) ==
  IF pathname = BadPath THEN EACCES
  ELSE IF OpenFds(p) = FdSlots THEN EMFILE
  ELSE 0

(* the file system after a successful open(pathname, flags, mode) *)
FsAfterOpen(pathname, flags, mode) ==
  IF ~fs[pathname].exists /\ "O_CREAT" \in flags
    THEN [fs EXCEPT ![pathname] =
            [exists |-> TRUE, mode |-> BitAndNot(mode, umask, 9), size |-> 0]]
  ELSE IF "O_TRUNC" \in flags
    THEN [fs EXCEPT ![pathname].size = 0]
  ELSE fs

(* a struct flock covering the first byte only *)
FlockOneByte(lock_type) ==
  [l_type |-> F_WRLCK, l_whence |-> SEEK_SET, l_start |-> 0, l_len |-> 1]

(* a struct flock asking for a shared lock *)
FlockShared(lock_type) ==
  [l_type |-> F_RDLCK, l_whence |-> SEEK_SET, l_start |-> 0, l_len |-> 0]

(* the struct flock filled in by _LOCK *)
FlockOf(lock_type) ==
  [l_type |-> F_WRLCK, l_whence |-> SEEK_SET, l_start |-> 0, l_len |-> 0]

(* both expansions of _LOCK given the waiting command *)
CmdAlwaysWait(lock_type) == F_SETLKW

(* the fcntl command of each expansion of _LOCK *)
Cmd(lock_type) == IF lock_type = "c_lock" THEN F_SETLK ELSE F_SETLKW

(* byte ranges [s1, s1+n1) and [s2, s2+n2) overlap; a length of 0 runs to infinity *)
Overlap(s1, n1, s2, n2) ==
  /\ (n2 = 0 \/ s1 < s2 + n2)
  /\ (n1 = 0 \/ s2 < s1 + n1)

(* the locks of table L, held by other processes, that a request fl by p on path conflicts with *)
ConflictingIn(L, p, path, fl) ==
  {l \in L : /\ l.pid # p
             /\ l.path = path
             /\ Overlap(l.start, l.len, fl.l_start, fl.l_len)
             /\ (l.type = F_WRLCK \/ fl.l_type = F_WRLCK)}

(* a request that also contends with the locks of its own process *)
ConflictingWithSelf(p, path, fl) == ConflictingIn(locks, NumProcs + 1, path, fl)

Conflicting(p, path, fl) == ConflictingIn(locks, p, path, fl)

Holders(p, path, fl) == {l.pid : l \in Conflicting(p, path, fl)}

(* the lock table after the request fl by p on path is granted *)
Granted(p, path, fl) ==
  {l \in locks : ~(l.pid = p /\ l.path = path
                   /\ Overlap(l.start, l.len, fl.l_start, fl.l_len))}
  \cup (IF fl.l_type = F_UNLCK THEN {}
        ELSE {[pid |-> p, path |-> path, type |-> fl.l_type,
               start |-> fl.l_start, len |-> fl.l_len]})

(* close(fd) drops every record lock the process holds on the file fd refers to *)
LocksAfterClose(p, fd) ==
  IF fd \in FdSlots /\ fdtab[p][fd] # NoFile
    THEN {l \in locks : ~(l.pid = p /\ l.path = fdtab[p][fd])}
    ELSE locks

FdtabAfterClose(p, fd) ==
  IF fd \in FdSlots /\ fdtab[p][fd] # NoFile
    THEN [fdtab EXCEPT ![p][fd] = NoFile]
    ELSE fdtab

(* the values close(fd) can leave in errno, 0 when it returns 0 *)
CloseErrnos(p, fd) ==
  IF fd \in FdSlots /\ fdtab[p][fd] # NoFile THEN {0, EIO} ELSE {EBADF}

(* p holds the exclusive lock over the whole file at path *)
HoldsLock(p, path) ==
  \E l \in locks : l.pid = p /\ l.path = path /\ l.type = F_WRLCK
                   /\ l.start = 0 /\ l.len = 0

(* the processes that hold a lock of any kind on the file at path *)
LockOwners(path) == {l.pid : l \in {m \in locks : m.path = path}}

(* the path descriptor fd of p is open on, NoFile when fd is not an open descriptor *)
PathOf(p, fd) == IF fd \in FdSlots THEN fdtab[p][fd] ELSE NoFile

(* q is (transitively) blocked in F_SETLKW behind a lock of p *)
RECURSIVE WaitsBehind(_, _, _)
WaitsBehind(q, p, n) ==
  /\ n > 0
  /\ pc[q] = "waiting"
  /\ LET hs == Holders(q, cur[q].pathname, FlockOf(cur[q].lock_type))
     IN  p \in hs \/ \E r \in hs : WaitsBehind(r, p, n - 1)

(* processes whose lock on path goes away between lock tables old and new *)
Released(old, new, path) ==
  {l.pid : l \in {m \in old : m.path = path /\ m \notin new}}

RelSinceAfter(newLocks) ==
  [q \in Procs |->
     IF pc[q] = "waiting"
       THEN relSince[q] \cup Released(locks, newLocks, cur[q].pathname)
       ELSE relSince[q]]

(* ---------------- initial state ---------------- *)
(* no descriptor open, no lock held, no call made; n calls may be started *)
Start(n) ==
  /\ fdtab = [p \in Procs |-> [fd \in FdSlots |-> NoFile]]
  /\ locks = {}
  /\ fs = [path \in GoodPaths |->
             IF path \in OldPaths
               THEN [exists |-> TRUE, mode |-> OldMode, size |-> OldSize]
               ELSE [exists |-> FALSE, mode |-> 0, size |-> 0]]
  /\ umask = DefaultUmask
  /\ pc = [p \in Procs |-> "idle"]
  /\ cur = [p \in Procs |-> NoCall]
  /\ result = [p \in Procs |-> NoResult]
  /\ calls = [p \in Procs |-> <<>>]
  /\ handles = [p \in Procs |-> {}]
  /\ released = [p \in Procs |-> {}]
  /\ budget = n
  /\ actor = 0
  /\ blockers = [p \in Procs |-> {}]
  /\ relSince = [p \in Procs |-> {}]

Init == Start(MaxCalls)

(* a library call is started: one call less may follow (a negative budget is unlimited) *)
StartCall ==
  /\ budget # 0
  /\ budget' = IF budget > 0 THEN budget - 1 ELSE budget

(* ---------------- the system calls and results of lock.c ---------------- *)

(* open(pathname, (O_WRONLY | O_CREAT), (S_IRUSR | S_IWUSR | S_IRGRP | S_IROTH)) *)
OpenCall(pathname, errno) ==
  [call |-> "open", path |-> pathname, flags |-> OpenFlags, mode |-> CreateMode,
   errno |-> errno]

(* fcntl(fd, cmd, &fl) *)
FcntlCall(fd, cmd, fl, errno) ==
  [call |-> "fcntl", fd |-> fd, cmd |-> cmd, fl |-> fl, errno |-> errno]

(* close(fd) *)
CloseCall(fd, errno) == [call |-> "close", fd |-> fd, errno |-> errno]

(* a failure return that leaves the error field at 0 *)
LockFailureNoErrno(errno) == [fd |-> -1, error |-> 0]

(* my_result on the failure returns of _LOCK *)
LockFailure(errno) == [fd |-> -1, error |-> errno]

(* my_result on the success return of _LOCK *)
LockSuccess(fd) == [fd |-> fd, error |-> 0]

(* a struct result r as handed back to the caller of op on path *)
Returned(op, path, r) == [op |-> op, path |-> path, fd |-> r.fd, error |-> r.error]

(* ---------------- c_lock / c_lock_wait: the _LOCK macro ---------------- *)

(* a wrong test of open's return value: the call goes on with fd = -1 *)
LockOpenFailUntested(p, lock_type, pathname) ==
  /\ pc[p] = "idle"
  /\ StartCall
  /\ actor' = p
  /\ OpenErrno(p, pathname) # 0
  /\ calls' = [calls EXCEPT ![p] =
       <<OpenCall(pathname, OpenErrno(p, pathname)),
         FcntlCall(-1, Cmd(lock_type), FlockOf(lock_type), EBADF),
         CloseCall(-1, EBADF)>>]
  /\ result' = [result EXCEPT ![p] = Returned(lock_type, pathname, LockFailure(EBADF))]
  /\ blockers' = [blockers EXCEPT ![p] = {}]
  /\ relSince' = [relSince EXCEPT ![p] = {}]
  /\ UNCHANGED <<fdtab, locks, fs, umask, pc, cur, handles, released>>

(* open() fails: fd == -1, return {-1, errno} at once *)
LockOpenFail(p, lock_type, pathname) ==
  /\ pc[p] = "idle"
  /\ StartCall
  /\ actor' = p
  /\ OpenErrno(p, pathname) # 0
  /\ calls' = [calls EXCEPT ![p] = <<OpenCall(pathname, OpenErrno(p, pathname))>>]
  /\ result' = [result EXCEPT ![p] =
       Returned(lock_type, pathname, LockFailure(OpenErrno(p, pathname)))]
  /\ blockers' = [blockers EXCEPT ![p] = {}]
  /\ relSince' = [relSince EXCEPT ![p] = {}]
  /\ UNCHANGED <<fdtab, locks, fs, umask, pc, cur, handles, released>>

(* open() succeeds: the call goes on to fill in the struct flock *)
LockOpenOk(p, lock_type, pathname) ==
  /\ pc[p] = "idle"
  /\ StartCall
  /\ actor' = p
  /\ OpenErrno(p, pathname) = 0
  /\ LET fd == LowestFree(p) IN
       /\ fdtab' = [fdtab EXCEPT ![p][fd] = pathname]
       /\ cur' = [cur EXCEPT ![p] = [lock_type |-> lock_type, pathname |-> pathname,
                                     fd |-> fd, errno |-> 0]]
  /\ fs' = FsAfterOpen(pathname, OpenFlags, CreateMode)
  /\ calls' = [calls EXCEPT ![p] = <<OpenCall(pathname, 0)>>]
  /\ result' = [result EXCEPT ![p] = NoResult]
  /\ pc' = [pc EXCEPT ![p] = "opened"]
  /\ blockers' = [blockers EXCEPT ![p] = {}]
  /\ relSince' = [relSince EXCEPT ![p] = {}]
  /\ UNCHANGED <<locks, umask, handles, released>>

(* the lock request of the call in progress is logged as issued *)
IssueFcntl(p) ==
  calls' = [calls EXCEPT ![p] =
    Append(@, FcntlCall(cur[p].fd, Cmd(cur[p].lock_type), FlockOf(cur[p].lock_type), 0))]

(* the return of _LOCK after fcntl() granted the lock: my_result = {fd, 0} *)
ReturnLocked(p) ==
  /\ locks' = Granted(p, cur[p].pathname, FlockOf(cur[p].lock_type))
  /\ result' = [result EXCEPT ![p] =
       Returned(cur[p].lock_type, cur[p].pathname, LockSuccess(cur[p].fd))]
  /\ handles' = [handles EXCEPT ![p] = @ \cup {cur[p].fd}]
  /\ UNCHANGED released
  /\ pc' = [pc EXCEPT ![p] = "idle"]
  /\ cur' = [cur EXCEPT ![p] = NoCall]

(* fcntl(fd, cmd, &fl) with no conflicting lock: granted at once *)
FcntlGranted(p) ==
  /\ pc[p] = "opened"
  /\ actor' = p
  /\ Conflicting(p, cur[p].pathname, FlockOf(cur[p].lock_type)) = {}
  /\ IssueFcntl(p)
  /\ ReturnLocked(p)
  /\ UNCHANGED <<fdtab, fs, umask, budget, blockers, relSince>>

(* fcntl(fd, F_SETLK, &fl) against a conflicting lock: -1 with EAGAIN, no wait *)
FcntlWouldBlock(p) ==
  /\ pc[p] = "opened"
  /\ actor' = p
  /\ Cmd(cur[p].lock_type) = F_SETLK
  /\ Conflicting(p, cur[p].pathname, FlockOf(cur[p].lock_type)) # {}
  /\ calls' = [calls EXCEPT ![p] =
       Append(@, FcntlCall(cur[p].fd, Cmd(cur[p].lock_type),
                           FlockOf(cur[p].lock_type), EAGAIN))]
  /\ cur' = [cur EXCEPT ![p].errno = EAGAIN]
  /\ pc' = [pc EXCEPT ![p] = "lockfail"]
  /\ blockers' = [blockers EXCEPT ![p] =
       Holders(p, cur[p].pathname, FlockOf(cur[p].lock_type))]
  /\ UNCHANGED <<fdtab, locks, fs, umask, result, handles, released, budget, relSince>>

(* fcntl(fd, F_SETLKW, &fl) against a conflicting lock: the caller sleeps *)
FcntlBlocks(p) ==
  /\ pc[p] = "opened"
  /\ actor' = p
  /\ Cmd(cur[p].lock_type) = F_SETLKW
  /\ Conflicting(p, cur[p].pathname, FlockOf(cur[p].lock_type)) # {}
  /\ ~\E q \in Holders(p, cur[p].pathname, FlockOf(cur[p].lock_type)) :
         WaitsBehind(q, p, NumProcs)
  /\ IssueFcntl(p)
  /\ pc' = [pc EXCEPT ![p] = "waiting"]
  /\ blockers' = [blockers EXCEPT ![p] =
       Holders(p, cur[p].pathname, FlockOf(cur[p].lock_type))]
  /\ UNCHANGED <<fdtab, locks, fs, umask, cur, result, handles, released, budget, relSince>>

(* fcntl(fd, F_SETLKW, &fl) that would close a cycle of sleepers: -1 with EDEADLK *)
FcntlDeadlock(p) ==
  /\ pc[p] = "opened"
  /\ actor' = p
  /\ Cmd(cur[p].lock_type) = F_SETLKW
  /\ \E q \in Holders(p, cur[p].pathname, FlockOf(cur[p].lock_type)) :
        WaitsBehind(q, p, NumProcs)
  /\ calls' = [calls EXCEPT ![p] =
       Append(@, FcntlCall(cur[p].fd, Cmd(cur[p].lock_type),
                           FlockOf(cur[p].lock_type), EDEADLK))]
  /\ cur' = [cur EXCEPT ![p].errno = EDEADLK]
  /\ pc' = [pc EXCEPT ![p] = "lockfail"]
  /\ blockers' = [blockers EXCEPT ![p] =
       Holders(p, cur[p].pathname, FlockOf(cur[p].lock_type))]
  /\ UNCHANGED <<fdtab, locks, fs, umask, result, handles, released, budget, relSince>>

(* a sleeper woken although the lock is still held *)
WaitGrantedEarly(p) ==
  /\ pc[p] = "waiting"
  /\ actor' = p
  /\ ReturnLocked(p)
  /\ UNCHANGED <<fdtab, fs, umask, calls, budget, blockers, relSince>>

(* a sleeper that is never woken *)
WaitLostWakeup(p) ==
  /\ pc[p] = "waiting"
  /\ FALSE
  /\ UNCHANGED vars

(* the sleeping fcntl(fd, F_SETLKW, &fl) finds the lock free: granted *)
WaitGranted(p) ==
  /\ pc[p] = "waiting"
  /\ actor' = p
  /\ Conflicting(p, cur[p].pathname, FlockOf(cur[p].lock_type)) = {}
  /\ ReturnLocked(p)
  /\ UNCHANGED <<fdtab, fs, umask, calls, budget, blockers, relSince>>

(* the sleeping fcntl(fd, F_SETLKW, &fl) is interrupted by a signal: -1 with EINTR *)
WaitInterrupted(p) ==
  /\ pc[p] = "waiting"
  /\ actor' = p
  /\ cur' = [cur EXCEPT ![p].errno = EINTR]
  /\ calls' = [calls EXCEPT ![p][Len(calls[p])].errno = EINTR]
  /\ pc' = [pc EXCEPT ![p] = "lockfail"]
  /\ UNCHANGED <<fdtab, locks, fs, umask, result, handles, released, budget, blockers, relSince>>

(* the failure branch reading errno only after its close(fd) *)
LockFailErrnoAfterClose(p) ==
  /\ pc[p] = "lockfail"
  /\ actor' = p
  /\ fdtab' = FdtabAfterClose(p, cur[p].fd)
  /\ locks' = LocksAfterClose(p, cur[p].fd)
  /\ relSince' = RelSinceAfter(LocksAfterClose(p, cur[p].fd))
  /\ \E e \in CloseErrnos(p, cur[p].fd) :
       /\ calls' = [calls EXCEPT ![p] = Append(@, CloseCall(cur[p].fd, e))]
       /\ result' = [result EXCEPT ![p] =
            Returned(cur[p].lock_type, cur[p].pathname,
                     LockFailure(IF e # 0 THEN e ELSE cur[p].errno))]
  /\ pc' = [pc EXCEPT ![p] = "idle"]
  /\ cur' = [cur EXCEPT ![p] = NoCall]
  /\ UNCHANGED <<fs, umask, handles, released, budget, blockers>>

(* a failure branch that issues the lock request again *)
LockFailRetry(p) ==
  /\ pc[p] = "lockfail"
  /\ actor' = p
  /\ pc' = [pc EXCEPT ![p] = "opened"]
  /\ UNCHANGED <<fdtab, locks, fs, umask, cur, result, calls, handles, released, budget,
                 blockers, relSince>>

(* the failure branch without its close(fd) *)
LockFailNoClose(p) ==
  /\ pc[p] = "lockfail"
  /\ actor' = p
  /\ result' = [result EXCEPT ![p] =
       Returned(cur[p].lock_type, cur[p].pathname, LockFailure(cur[p].errno))]
  /\ pc' = [pc EXCEPT ![p] = "idle"]
  /\ cur' = [cur EXCEPT ![p] = NoCall]
  /\ UNCHANGED <<fdtab, locks, fs, umask, calls, handles, released, budget, blockers, relSince>>

(* the failure branch of the fcntl test: my_result = {-1, errno}; close(fd); return *)
LockFailClose(p) ==
  /\ pc[p] = "lockfail"
  /\ actor' = p
  /\ fdtab' = FdtabAfterClose(p, cur[p].fd)
  /\ locks' = LocksAfterClose(p, cur[p].fd)
  /\ relSince' = RelSinceAfter(LocksAfterClose(p, cur[p].fd))
  /\ \E e \in CloseErrnos(p, cur[p].fd) :
       calls' = [calls EXCEPT ![p] = Append(@, CloseCall(cur[p].fd, e))]
  /\ result' = [result EXCEPT ![p] =
       Returned(cur[p].lock_type, cur[p].pathname, LockFailure(cur[p].errno))]
  /\ pc' = [pc EXCEPT ![p] = "idle"]
  /\ cur' = [cur EXCEPT ![p] = NoCall]
  /\ UNCHANGED <<fs, umask, handles, released, budget, blockers>>

(* ---------------- c_unlock ---------------- *)

(* a c_unlock that reports success whatever close() returned *)
UnlockResultAlwaysOk(errno) == [fd |-> -1, error |-> 0]

(* a release that takes a descriptor that is not open for released *)
UnlockResultIdempotent(errno) ==
  IF errno # 0 /\ errno # EBADF THEN [fd |-> -1, error |-> errno]
                                ELSE [fd |-> -1, error |-> 0]

(* my_result of c_unlock; errno = 0 stands for close() returning 0 *)
UnlockResult(errno) ==
  IF errno # 0 THEN [fd |-> -1, error |-> errno]
               ELSE [fd |-> -1, error |-> 0]

c_unlock(p, fd) ==
  /\ pc[p] = "idle"
  /\ StartCall
  /\ actor' = p
  /\ \E e \in CloseErrnos(p, fd) :
       /\ calls' = [calls EXCEPT ![p] = <<CloseCall(fd, e)>>]
       /\ result' = [result EXCEPT ![p] =
            Returned("c_unlock", PathOf(p, fd), UnlockResult(e))]
  /\ fdtab' = FdtabAfterClose(p, fd)
  /\ locks' = LocksAfterClose(p, fd)
  /\ relSince' = RelSinceAfter(LocksAfterClose(p, fd))
  /\ handles' = [handles EXCEPT ![p] = @ \ {fd}]
  /\ released' = [released EXCEPT ![p] = @ \cup ({fd} \cap handles[p])]
  /\ UNCHANGED <<fs, umask, pc, cur, blockers>>

(* ---------------- specification ---------------- *)
LockTypes == {"c_lock", "c_lock_wait"}
UnlockArgs == (-1)..(MaxFd - 1)

Next ==
  \/ \E p \in Procs, t \in LockTypes, path \in Paths : LockOpenFail(p, t, path)
  \/ \E p \in Procs, t \in LockTypes, path \in Paths : LockOpenOk(p, t, path)
  \/ \E p \in Procs : FcntlGranted(p)
  \/ \E p \in Procs : FcntlWouldBlock(p)
  \/ \E p \in Procs : FcntlBlocks(p)
  \/ \E p \in Procs : FcntlDeadlock(p)
  \/ \E p \in Procs : WaitGranted(p)
  \/ \E p \in Procs : WaitInterrupted(p)
  \/ \E p \in Procs : LockFailClose(p)
  \/ \E p \in Procs, fd \in UnlockArgs : c_unlock(p, fd)

Spec == Init /\ [][Next]_vars

(* the callers that only use c_lock and c_unlock, on one path, for one call more *)
InitRelease == Start(MaxCalls + 1)

NextRelease ==
  \/ \E p \in Procs : LockOpenOk(p, "c_lock", "a")
  \/ \E p \in Procs : FcntlGranted(p)
  \/ \E p \in Procs : FcntlWouldBlock(p)
  \/ \E p \in Procs : LockFailClose(p)
  \/ \E p \in Procs, fd \in FdSlots : c_unlock(p, fd)

SpecRelease == InitRelease /\ [][NextRelease]_vars

(* the same callers started over every file system: each path there already *)
(* or not, under either umask                                                *)
InitFiles ==
  /\ fdtab = [p \in Procs |-> [fd \in FdSlots |-> NoFile]]
  /\ locks = {}
  /\ fs \in [GoodPaths -> {[exists |-> TRUE, mode |-> OldMode, size |-> OldSize],
                           [exists |-> FALSE, mode |-> 0, size |-> 0]}]
  /\ umask \in Umasks
  /\ pc = [p \in Procs |-> "idle"]
  /\ cur = [p \in Procs |-> NoCall]
  /\ result = [p \in Procs |-> NoResult]
  /\ calls = [p \in Procs |-> <<>>]
  /\ handles = [p \in Procs |-> {}]
  /\ released = [p \in Procs |-> {}]
  /\ budget = MaxCalls - 1
  /\ actor = 0
  /\ blockers = [p \in Procs |-> {}]
  /\ relSince = [p \in Procs |-> {}]

(* with one call less no two sleepers can wait for each other *)
NextFiles ==
  \/ \E p \in Procs, t \in LockTypes, path \in Paths : LockOpenFail(p, t, path)
  \/ \E p \in Procs, t \in LockTypes, path \in Paths : LockOpenOk(p, t, path)
  \/ \E p \in Procs : FcntlGranted(p)
  \/ \E p \in Procs : FcntlWouldBlock(p)
  \/ \E p \in Procs : FcntlBlocks(p)
  \/ \E p \in Procs : WaitGranted(p)
  \/ \E p \in Procs : WaitInterrupted(p)
  \/ \E p \in Procs : LockFailClose(p)
  \/ \E p \in Procs, fd \in UnlockArgs : c_unlock(p, fd)

SpecFiles == InitFiles /\ [][NextFiles]_vars

(* callers that, for ever, take the lock of one path with c_lock_wait when  *)
(* they have no handle and release the handle they have; a call that is    *)
(* under way goes on, and a sleeper whose lock stays free is woken         *)
InitLive == Start(0 - 1)

NextLive ==
  \/ \E p \in Procs : handles[p] = {} /\ LockOpenOk(p, "c_lock_wait", "a")
  \/ \E p \in Procs : FcntlGranted(p)
  \/ \E p \in Procs : FcntlBlocks(p)
  \/ \E p \in Procs : WaitGranted(p)
  \/ \E p \in Procs : WaitInterrupted(p)
  \/ \E p \in Procs : LockFailClose(p)
  \/ \E p \in Procs : \E fd \in handles[p] : c_unlock(p, fd)

FairLive ==
  \A p \in Procs :
    /\ WF_vars(FcntlGranted(p))
    /\ WF_vars(FcntlBlocks(p))
    /\ WF_vars(WaitGranted(p))
    /\ WF_vars(LockFailClose(p))

SpecLive == InitLive /\ [][NextLive]_vars /\ FairLive

(* a process that has made no call yet *)
Outsider == NumProcs + 1

(* ---------------- properties ---------------- *)

AcquireOk(p) == result[p].op \in LockTypes /\ result[p].fd >= 0
AcquireFailed(p) == result[p].op \in LockTypes /\ result[p].fd < 0

(* C1: mutual exclusion.  At most one process owns a lock on any file, and *)
(* while a process sits on the success result of an acquire of a path no   *)
(* other process owns a lock on that path.                                 *)
C1_MutualExclusion ==
  /\ \A path \in GoodPaths : Cardinality(LockOwners(path)) <= 1
  /\ \A p \in Procs :
       AcquireOk(p) => LockOwners(result[p].path) \subseteq {p}

(* one process holds the lock on a path another process was refused on *)
C1_Witness ==
  \E p, q \in Procs :
    /\ p # q
    /\ AcquireOk(p) /\ HoldsLock(p, result[p].path)
    /\ AcquireFailed(q) /\ result[q].path = result[p].path
    /\ result[q].error = EAGAIN

(* C2: a c_lock whose lock request meets a lock held by another process    *)
(* never sleeps: it is never in the waiting state, its request fails with  *)
(* EAGAIN, and it returns fd = -1 with error = EAGAIN.                      *)
C2_NonBlockingFails ==
  \A p \in Procs :
    /\ pc[p] = "waiting" => cur[p].lock_type # "c_lock"
    /\ (pc[p] = "lockfail" /\ cur[p].lock_type = "c_lock") => cur[p].errno = EAGAIN
    /\ (result[p].op = "c_lock" /\ blockers[p] # {})
         => (result[p].fd = -1 /\ result[p].error = EAGAIN)

(* a c_lock has returned EAGAIN while the holder still holds, not having acted since *)
C2_Witness ==
  \E p \in Procs :
    /\ result[p].op = "c_lock" /\ result[p].fd = -1 /\ result[p].error = EAGAIN
    /\ blockers[p] # {}
    /\ \A q \in blockers[p] : AcquireOk(q) /\ HoldsLock(q, result[p].path)

(* C3: a c_lock_wait whose request met a lock held by other processes       *)
(* returns success only after each of those holders released its lock.     *)
C3_WaitReturnsAfterRelease ==
  \A p \in Procs :
    (result[p].op = "c_lock_wait" /\ result[p].fd >= 0)
      => (blockers[p] \subseteq relSince[p]
          /\ \A q \in blockers[p] : ~HoldsLock(q, result[p].path))

(* a c_lock_wait that slept behind a holder has returned with the lock *)
C3_Witness ==
  \E p \in Procs :
    /\ result[p].op = "c_lock_wait" /\ result[p].fd >= 0
    /\ blockers[p] # {}
    /\ HoldsLock(p, result[p].path)

(* C4: a c_unlock of an open handle issues one close and nothing else; in   *)
(* the state it returns in, the caller owns no lock on the handle's file   *)
(* and a lock request on that file by any other process, one that made no  *)
(* call before included, meets no conflict.                                *)
C4_ReleaseByClose ==
  [][\A p \in Procs :
       (actor' = p /\ result'[p].op = "c_unlock" /\ result'[p].path # NoFile)
         => /\ Len(calls'[p]) = 1
            /\ calls'[p][1].call = "close"
            /\ \A l \in locks' : ~(l.pid = p /\ l.path = result'[p].path)
            /\ \A q \in (Procs \cup {Outsider}) \ {p} :
                 ConflictingIn(locks', q, result'[p].path, FlockOf("c_lock")) = {}]_vars

(* C5: lock lifetime as claimed.  Every handle returned by a successful     *)
(* acquire and not yet passed to c_unlock still carries the exclusive lock *)
(* of its process on its file.                                             *)
C5_LockLifetime ==
  \A p \in Procs : \A h \in handles[p] : HoldsLock(p, PathOf(p, h))

(* C6: no descriptor leak.  Between calls the descriptors open in a process *)
(* are exactly its live handles, and after a failed acquire the descriptor *)
(* its lock request was issued on has been closed, by the call's last act. *)
C6_NoDescriptorLeak ==
  \A p \in Procs :
    /\ pc[p] = "idle" => OpenFds(p) = handles[p]
    /\ (AcquireFailed(p) /\ Len(calls[p]) > 1)
         => /\ calls[p][2].call = "fcntl"
            /\ calls[p][2].fd \notin OpenFds(p)
            /\ calls[p][Len(calls[p])] \in
                 {CloseCall(calls[p][2].fd, e) : e \in {0, EIO}}

(* an acquire failed on its lock request in a process that keeps another handle open *)
C6_Witness ==
  \E p \in Procs :
    /\ AcquireFailed(p) /\ Len(calls[p]) = 3
    /\ handles[p] # {}

(* C7: every result of c_lock / c_lock_wait is a success {fd >= 0, 0} with  *)
(* fd open on the path and the caller holding the exclusive lock, or a     *)
(* failure {-1, error # 0} with no descriptor of the call left open.       *)
C7_ResultWellFormed ==
  \A p \in Procs :
    result[p].op \in LockTypes =>
      \/ /\ result[p].fd >= 0
         /\ result[p].error = 0
         /\ PathOf(p, result[p].fd) = result[p].path
         /\ HoldsLock(p, result[p].path)
      \/ /\ result[p].fd = -1
         /\ result[p].error # 0
         /\ \A i \in 1..Len(calls[p]) :
              calls[p][i].call = "fcntl" => calls[p][i].fd \notin OpenFds(p)

(* one process sits on a success and another on a lock-request failure *)
C7_Witness ==
  \E p, q \in Procs :
    /\ AcquireOk(p) /\ result[p].fd \in OpenFds(p)
    /\ AcquireFailed(q) /\ Len(calls[q]) = 3 /\ result[q].error \in {EAGAIN, EINTR}

(* C8: a step in which an acquire returns out of the idle state (its open   *)
(* failed) yields {-1, errno of the open}, has issued the open and no      *)
(* other system call, and changes no lock and no descriptor table.         *)
C8_OpenFailure ==
  [][\A p \in Procs :
       (actor' = p /\ pc[p] = "idle" /\ pc'[p] = "idle" /\ result'[p].op \in LockTypes)
         => /\ result'[p].fd = -1
            /\ Len(calls'[p]) = 1
            /\ calls'[p][1].call = "open"
            /\ calls'[p][1].errno # 0
            /\ result'[p].error = calls'[p][1].errno
            /\ result'[p].error = OpenErrno(p, result'[p].path)
            /\ locks' = locks
            /\ fdtab' = fdtab]_vars

(* an open has failed while locks are held and descriptors are open *)
C8_Witness ==
  \E p \in Procs :
    /\ AcquireFailed(p) /\ Len(calls[p]) = 1
    /\ result[p].error \in {EACCES, EMFILE}
    /\ locks # {}

(* C9: c_unlock returns fd = -1 and error = the errno of its close (0 when  *)
(* the close returned 0); either way the descriptor passed in is not open  *)
(* afterwards.                                                             *)
C9_ReleaseResult ==
  \A p \in Procs :
    result[p].op = "c_unlock" =>
      /\ result[p].fd = -1
      /\ Len(calls[p]) = 1
      /\ calls[p][1].call = "close"
      /\ result[p].error = calls[p][1].errno
      /\ calls[p][1].fd \notin OpenFds(p)

(* one c_unlock of an open handle reported 0 and another reported an error *)
C9_Witness ==
  \E p, q \in Procs :
    /\ result[p].op = "c_unlock" /\ result[p].path # NoFile /\ result[p].error = 0
    /\ result[q].op = "c_unlock" /\ result[q].path # NoFile /\ result[q].error # 0

(* C10: every lock request is F_SETLK or F_SETLKW with an exclusive lock    *)
(* from offset 0 of the file with length 0, and so is every lock granted.  *)
C10_ExclusiveWholeFile ==
  /\ \A p \in Procs : \A i \in 1..Len(calls[p]) :
       calls[p][i].call = "fcntl" =>
         /\ calls[p][i].cmd \in {F_SETLK, F_SETLKW}
         /\ calls[p][i].fl.l_type = F_WRLCK
         /\ calls[p][i].fl.l_whence = SEEK_SET
         /\ calls[p][i].fl.l_start = 0
         /\ calls[p][i].fl.l_len = 0
  /\ \A l \in locks : l.type = F_WRLCK /\ l.start = 0 /\ l.len = 0

(* a non-blocking and a blocking lock request have both been issued *)
C10_Witness ==
  \E p, q \in Procs :
    /\ Len(calls[p]) > 1 /\ calls[p][2].call = "fcntl" /\ calls[p][2].cmd = F_SETLK
    /\ Len(calls[q]) > 1 /\ calls[q][2].call = "fcntl" /\ calls[q][2].cmd = F_SETLKW
    /\ locks # {}

(* ---------------- files ---------------- *)

(* bit i of the permission word x *)
Bit(x, i) == (x \div (2 ^ i)) % 2

(* owner read+write, group read, other read *)
Mode0644 == S_IRUSR + S_IWUSR + S_IRGRP + S_IROTH

(* the files the callers found missing and created *)
CreatedPaths == {path \in GoodPaths : fs[path].exists /\ fs[path].size = 0}

C13_ExistingFileUntouched ==
  [][\A path \in GoodPaths : fs[path].exists => fs'[path] = fs[path]]_vars

(* a file that was there before has been locked and released, its size as it was *)
C13_Witness ==
  \E p \in Procs :
    /\ result[p].op = "c_unlock" /\ result[p].error = 0
    /\ result[p].path \in GoodPaths
    /\ fs[result[p].path].size = OldSize
    /\ fs[result[p].path].mode = OldMode

(* ---------------- errors ---------------- *)

(* C12 as claimed: a c_unlock never hands a negative descriptor to a system *)
(* call.                                                                   *)
C12_NegativeFdNoOsCall ==
  \A p \in Procs :
    result[p].op = "c_unlock" =>
      \A i \in 1..Len(calls[p]) : calls[p][i].fd >= 0

(* C14: the error of a failed acquire is the errno of the system call that  *)
(* failed: of the open when only the open was issued, of the lock request  *)
(* otherwise, whatever the close that follows it reports.                  *)
C14_ErrorIsFailingCall ==
  \A p \in Procs :
    AcquireFailed(p) =>
      /\ Len(calls[p]) \in {1, 3}
      /\ Len(calls[p]) = 1 =>
           (calls[p][1].call = "open" /\ result[p].error = calls[p][1].errno)
      /\ Len(calls[p]) = 3 =>
           /\ calls[p][1].errno = 0
           /\ calls[p][2].call = "fcntl"
           /\ calls[p][2].errno # 0
           /\ result[p].error = calls[p][2].errno

(* a refused lock request was reported as such although the close after it failed *)
C14_Witness ==
  \E p \in Procs :
    /\ AcquireFailed(p) /\ Len(calls[p]) = 3
    /\ calls[p][3].call = "close" /\ calls[p][3].errno = EIO
    /\ result[p].error = EAGAIN

(* the number of system calls named name in the log of p's call *)
NumCalls(p, name) ==
  Cardinality({i \in 1..Len(calls[p]) : calls[p][i].call = name})

(* C15: no call issues more than one open or more than one lock request,    *)
(* and once a lock request has failed the call is on its failure return or *)
(* has returned that failure.                                              *)
C15_NoRetry ==
  \A p \in Procs :
    /\ NumCalls(p, "open") <= 1
    /\ NumCalls(p, "fcntl") <= 1
    /\ \A i \in 1..Len(calls[p]) :
         (calls[p][i].call = "fcntl" /\ calls[p][i].errno # 0) =>
            \/ pc[p] = "lockfail" /\ cur[p].errno = calls[p][i].errno
            \/ AcquireFailed(p) /\ result[p].error = calls[p][i].errno

(* one call returned EAGAIN and another returned EINTR from an interrupted wait *)
C15_Witness ==
  \E p, q \in Procs :
    /\ AcquireFailed(p) /\ result[p].op = "c_lock" /\ result[p].error = EAGAIN
    /\ AcquireFailed(q) /\ result[q].op = "c_lock_wait" /\ result[q].error = EINTR

(* ---------------- liveness ---------------- *)

C17_SameProcessIndependence ==
  [][\A p \in Procs :
       /\ (pc[p] = "idle" /\ pc'[p] = "opened")
            => /\ cur'[p].fd \notin OpenFds(p)
               /\ fdtab'[p][cur'[p].fd] = cur'[p].pathname
               /\ \A fd \in OpenFds(p) : fdtab'[p][fd] = fdtab[p][fd]
       /\ (pc[p] = "opened" /\ pc'[p] # "opened" /\ HoldsLock(p, cur[p].pathname))
            => /\ pc'[p] = "idle"
               /\ result'[p] = Returned(cur[p].lock_type, cur[p].pathname,
                                        LockSuccess(cur[p].fd))
               /\ cur[p].fd \notin handles[p]
               /\ handles'[p] = handles[p] \cup {cur[p].fd}
               /\ locks' = locks]_vars

(* a non-blocking acquire succeeded in a process that has an older handle on the same path *)
C17_Witness ==
  \E p \in Procs :
    /\ AcquireOk(p) /\ result[p].op = "c_lock"
    /\ HoldsLock(p, result[p].path)
    /\ \E h \in handles[p] : h # result[p].fd /\ PathOf(p, h) = result[p].path

(* ---------------- stale handles ---------------- *)

(* C18: stale-handle safety.  A c_unlock on a descriptor number that the    *)
(* process has already released as a handle returns a failure and changes  *)
(* no descriptor table and no lock, whatever acquires came in between.     *)
C18_StaleHandleSafe ==
  [][\A p \in Procs : \A fd \in released[p] :
       (/\ actor' = p
        /\ pc[p] = "idle"
        /\ result'[p].op = "c_unlock"
        /\ Len(calls'[p]) = 1
        /\ calls'[p][1].fd = fd)
         => /\ result'[p].error # 0
            /\ fdtab' = fdtab
            /\ locks' = locks]_vars

(* the step is a c_unlock(fd) of p on a number p has released before *)
StaleUnlock(p, fd) ==
  /\ fd \in released[p]
  /\ actor' = p
  /\ pc[p] = "idle"
  /\ result'[p].op = "c_unlock"
  /\ calls'[p] # <<>>
  /\ calls'[p][1].fd = fd

(* C18 amended: such a c_unlock fails with EBADF and changes no descriptor  *)
(* and no lock as long as the number has not been given to a later         *)
(* acquire; once it has, the call closes that acquire's descriptor, drops  *)
(* the process's locks on its file and reports what close reports.         *)
C18_StaleHandleUnlessReissued ==
  [][\A p \in Procs : \A fd \in FdSlots :
       StaleUnlock(p, fd) =>
         IF fdtab[p][fd] = NoFile
           THEN /\ result'[p].fd = -1 /\ result'[p].error = EBADF
                /\ fdtab' = fdtab
                /\ locks' = locks
                /\ handles' = handles
           ELSE /\ result'[p].fd = -1 /\ result'[p].error \in {0, EIO}
                /\ fdtab' = [fdtab EXCEPT ![p][fd] = NoFile]
                /\ locks' = {l \in locks : ~(l.pid = p /\ l.path = fdtab[p][fd])}
                /\ handles' = [handles EXCEPT ![p] = @ \ {fd}]]_vars

(* a second c_unlock of a released handle failed in a process whose other handle keeps its lock *)
C18_Witness ==
  \E p \in Procs :
    /\ result[p].op = "c_unlock" /\ result[p].error = EBADF
    /\ calls[p][1].fd \in released[p]
    /\ \E h \in handles[p] : HoldsLock(p, PathOf(p, h))

====
